---- MODULE Spec2Model ----
(***************************************************************************)
(* Model of the MONGODB-OIDC authenticator (x/mongo/driver/auth/oidc.go):  *)
(* one OIDCAuthenticator shared by several connections, each of which may  *)
(* call Auth, Reauth and CreateSpeculativeConversation.                    *)
(*                                                                         *)
(* Tokens are numbered: the k-th successful callback invocation returns    *)
(* the access token k (an identity provider issues a new token on every    *)
(* request); 0 stands for the empty string / a nil pointer.                *)
(***************************************************************************)
EXTENDS Integers, FiniteSets, Sequences, TLC

\* Bounds of the model.
NumConns == 2
MaxGen == 2
MaxCalls == 3

Conns == 1..NumConns

\* The empty access token "" (and nil for *string), and the unlocked mutex.
Empty == 0
Unlocked == 0

VARIABLES
    \* newOIDCAuthenticator
    cred,           \* the credential handed to newOIDCAuthenticator (immutable)
    built,          \* what it returned: "ok" for an authenticator, or its error;
                    \* "no" before it is called
    \* OIDCAuthenticator
    mu,             \* sync.Mutex: Unlocked or the connection whose call holds it
    accessToken,
    refreshToken,
    tokenGenID,
    \* driver.Connection: the OIDCTokenGenID slot of each connection
    connGen,
    \* the call each connection is making
    pc,             \* where the call is
    frame,          \* the call's locals
    result,         \* what the last call returned
    \* history, for stating properties only
    cbOk,           \* successful callback invocations so far
    usedTok,        \* the token of the connection's last conversation
    recvGen,        \* tokenGenID when the connection last received a token
    hist,           \* what the current call has done so far
    calls           \* calls made so far, by all connections

oaVars == <<cred, built, mu, accessToken, refreshToken, tokenGenID>>
callVars == <<pc, frame, result>>
histVars == <<cbOk, usedTok, recvGen, hist, calls>>
vars == <<oaVars, connGen, callVars, histVars>>

-----------------------------------------------------------------------------
\* Credentials and construction

EnvValues == {"absent", "azure", "Azure", "gcp", "test", "k8s"}

Creds == [password : BOOLEAN, env : EnvValues, resource : BOOLEAN,
          machine : BOOLEAN, human : BOOLEAN]

\* strings.ToLower on the environment values above
ToLower(e) == IF e = "Azure" THEN "azure" ELSE e

\* A constructor that accepts every credential.
NewOIDCAuthenticatorNoChecks(cr) == "ok"

\* newOIDCAuthenticator: "ok" or the error it returns
NewOIDCAuthenticator(cr) ==
    IF cr.password THEN "errPassword"
    ELSE IF cr.env = "absent" THEN "ok"
    ELSE IF ToLower(cr.env) \in {"azure", "gcp"} /\ ~cr.resource THEN "errResource"
    ELSE IF ToLower(cr.env) \in {"azure", "gcp", "test"} /\ (cr.machine \/ cr.human)
         THEN "errCallbacksNotAllowed"
    ELSE "ok"

\* A resolver that returns no callback and no error for an environment it
\* does not implement.
ProviderCallbackSilent(cr) ==
    IF cr.env = "azure" /\ cr.resource THEN <<"azure", "nil">> ELSE <<"nil", "nil">>

\* providerCallback: <<callback, err>>
ProviderCallback(cr) ==
    IF cr.env = "absent" THEN <<"nil", "nil">>
    ELSE IF cr.env = "azure"
         THEN IF ~cr.resource THEN <<"nil", "errResource">>
              ELSE <<"azure", "nil">>
    ELSE IF cr.env = "gcp" THEN <<"gcpStub", "errNotImplemented">>
    ELSE <<"nil", "errNotSupported">>

\* The credential the authenticator is built from: a user-supplied machine
\* callback and nothing else.
ModelCreds ==
    {cr \in Creds : NewOIDCAuthenticator(cr) = "ok" /\ cr.machine /\ ~cr.human
                    /\ cr.env = "absent" /\ ~cr.resource}

-----------------------------------------------------------------------------
NoSnap == <<>>

\* No SaslClient.
NoClient == [kind |-> "none"]

\* The locals of a call: Auth's cachedAccessToken and machineCallback, the
\* *OIDCCredential cred of getAccessToken (its AccessToken, and whether its
\* RefreshToken is set), the accessToken getAccessToken or
\* CreateSpeculativeConversation hands on, and, where the conversation is
\* followed step by step, its SaslClient and the client payloads sent.
NoFrame == [cachedAccessToken |-> Empty, machineCallback |-> "nil", credToken |-> Empty,
            credRefresh |-> FALSE, accessToken |-> Empty,
            client |-> NoClient, sent |-> <<>>]

\* The history of a call:
\*   nConv, nCb  conversations run and callback invocations made
\*   cbErr       the error the callback returned
\*   rejTok      the token the server rejected in (or, for Reauth, before) the call
\*   invOut      what the call's invalidateAccessToken did
\*   snap        the authenticator and the slots when getAccessToken took the lock
\*   cycle       for Reauth: the counter when it was called, if the cache then
\*               held a token and the connection's slot held its generation
NoHist == [nConv |-> 0, nCb |-> 0, cbErr |-> "nil", rejTok |-> Empty, invOut |-> "none",
           snap |-> NoSnap, cycle |-> 0]

\* What is kept of a call's history once it has returned.
Returned(h) == [NoHist EXCEPT !.nConv = h.nConv, !.nCb = h.nCb, !.cbErr = h.cbErr]

Init ==
    /\ cred \in ModelCreds
    /\ built = NewOIDCAuthenticator(cred)
    /\ mu = Unlocked
    /\ accessToken = Empty
    /\ refreshToken = Empty
    /\ tokenGenID = 0
    /\ connGen = [c \in Conns |-> 0]
    /\ pc = [c \in Conns |-> "idle"]
    /\ frame = [c \in Conns |-> NoFrame]
    /\ result = [c \in Conns |-> "none"]
    /\ cbOk = 0
    /\ usedTok = [c \in Conns |-> Empty]
    /\ recvGen = [c \in Conns |-> 0]
    /\ hist = [c \in Conns |-> NoHist]
    /\ calls = 0

-----------------------------------------------------------------------------
\* A call by c begins.
BeginCall(c) ==
    /\ built = "ok"
    /\ pc[c] = "idle"
    /\ calls < MaxCalls
    /\ calls' = calls + 1

\* The history of a call of o as it begins.  Reauth is called because the
\* server rejected the token the connection was using.
BeginHist(c, o) ==
    [NoHist EXCEPT
        !.rejTok = IF o = "Reauth" THEN usedTok[c] ELSE Empty,
        !.cycle = IF o = "Reauth" /\ accessToken # Empty /\ connGen[c] = tokenGenID
                  THEN tokenGenID ELSE 0]

\* The call returns r: its locals are gone.
Return(c, r) ==
    /\ pc' = [pc EXCEPT ![c] = "idle"]
    /\ result' = [result EXCEPT ![c] = r]
    /\ frame' = [frame EXCEPT ![c] = NoFrame]

\* A fencing test without the case of a slot that was never set.
ShouldInvalidateSetOnly(g, big) == g >= big

\* A fencing test that takes a slot holding the current generation for stale.
ShouldInvalidateStrict(g, big) == g = 0 \/ g > big

\* invalidateAccessToken's test, line 293, on the connection's tokenGenID g
\* and the authenticator's tokenGenID big.
ShouldInvalidate(g, big) == g = 0 \/ g >= big

\* invalidateAccessToken, lines 286-297, with the mutex taken and released.
InvalidateAccessToken(c) ==
    /\ mu = Unlocked
    /\ IF ShouldInvalidate(connGen[c], tokenGenID)
       THEN /\ accessToken' = Empty
            /\ connGen' = [connGen EXCEPT ![c] = 0]
            /\ recvGen' = [recvGen EXCEPT ![c] = 0]
       ELSE UNCHANGED <<accessToken, connGen, recvGen>>
    /\ UNCHANGED <<cred, built, mu, refreshToken, tokenGenID>>

InvalidateOutcome(c) ==
    IF ShouldInvalidate(connGen[c], tokenGenID) THEN "cleared" ELSE "fenced"

\* Reauth, lines 301-302: the token is invalidated, then Auth is called.
Reauth(c) ==
    /\ BeginCall(c)
    /\ InvalidateAccessToken(c)
    /\ hist' = [hist EXCEPT ![c] = [BeginHist(c, "Reauth") EXCEPT
                                       !.invOut = InvalidateOutcome(c)]]
    /\ pc' = [pc EXCEPT ![c] = "auth"]
    /\ result' = [result EXCEPT ![c] = "none"]
    /\ UNCHANGED <<frame, cbOk, usedTok>>

\* Auth, lines 339-347: the machineCallback local: the user's callback, or
\* else the one providerCallback returns.
MachineCallback(cr) ==
    IF cr.machine THEN "user" ELSE ProviderCallback(cr)[1]

\* A dispatch that looks at the machine callback before the human one.
DispatchMachineFirst(cr) ==
    IF cr.machine THEN "machine"
    ELSE IF cr.human THEN "errHumanNotImplemented"
    ELSE IF ProviderCallback(cr)[2] # "nil" THEN "errProvider"
    ELSE IF ProviderCallback(cr)[1] # "nil" THEN "machine"
    ELSE "errNoCallback"

\* A dispatch that consults providerCallback before it looks at the user's
\* machine callback.
DispatchProviderFirst(cr) ==
    IF cr.human THEN "errHumanNotImplemented"
    ELSE IF ProviderCallback(cr)[2] # "nil" THEN "errProvider"
    ELSE IF ProviderCallback(cr)[1] # "nil" THEN "machine"
    ELSE IF cr.machine THEN "machine"
    ELSE "errNoCallback"

\* Auth, lines 334-352: which way the call goes on: the error it returns, or
\* "machine" for doAuthMachine.
Dispatch(cr) ==
    IF cr.human THEN "errHumanNotImplemented"
    ELSE IF cr.machine THEN "machine"
    ELSE IF ProviderCallback(cr)[2] # "nil" THEN "errProvider"
    ELSE IF ProviderCallback(cr)[1] # "nil" THEN "machine"
    ELSE "errNoCallback"

\* Auth from line 334 on, up to the call of getAccessToken; h is the call's
\* history so far.
AuthDispatch(c, h) ==
    IF Dispatch(cred) = "machine"
    THEN /\ pc' = [pc EXCEPT ![c] = "getAccessToken"]
         /\ frame' = [frame EXCEPT ![c] =
                         [NoFrame EXCEPT !.machineCallback = MachineCallback(cred)]]
         /\ hist' = [hist EXCEPT ![c] = h]
         /\ result' = [result EXCEPT ![c] = "none"]
    ELSE /\ pc' = [pc EXCEPT ![c] = "idle"]
         /\ frame' = [frame EXCEPT ![c] = NoFrame]
         /\ result' = [result EXCEPT ![c] = Dispatch(cred)]
         /\ hist' = [hist EXCEPT ![c] = Returned(h)]

\* Auth, lines 315-319: the cached token is read under the mutex; with none
\* the call goes on at line 334.
AuthSnapshot(c, h) ==
    /\ mu = Unlocked
    /\ recvGen' = [recvGen EXCEPT ![c] = IF accessToken # Empty THEN tokenGenID ELSE @]
    /\ IF accessToken # Empty
       THEN /\ frame' = [frame EXCEPT ![c] = [NoFrame EXCEPT !.cachedAccessToken = accessToken]]
            /\ pc' = [pc EXCEPT ![c] = "conv_cached"]
            /\ hist' = [hist EXCEPT ![c] = h]
            /\ result' = [result EXCEPT ![c] = "none"]
       ELSE AuthDispatch(c, h)

\* Auth is called, lines 307-319: a nil config is an error.
Auth(c) ==
    /\ BeginCall(c)
    /\ \E cfgIsNil \in BOOLEAN :
          IF cfgIsNil
          THEN /\ Return(c, "errConfigNil")
               /\ hist' = [hist EXCEPT ![c] = NoHist]
               /\ UNCHANGED recvGen
          ELSE AuthSnapshot(c, BeginHist(c, "Auth"))
    /\ UNCHANGED <<oaVars, connGen, cbOk, usedTok>>

\* Reauth, line 303: Auth, lines 307-319.
ReauthAuth(c) ==
    /\ pc[c] = "auth"
    /\ AuthSnapshot(c, hist[c])
    /\ UNCHANGED <<oaVars, connGen, cbOk, usedTok, calls>>

\* The authenticator's field read again, without the mutex, in place of the
\* snapshot.
CachedStepTokenReread(c) == accessToken

\* The token of the one-step client of line 322.
CachedStepToken(c) == frame[c].cachedAccessToken

\* ConductSaslConversation with a one-step client carrying token t.
ConductSaslConversation(c, t) ==
    usedTok' = [usedTok EXCEPT ![c] = t]

\* Auth, lines 319-326: the conversation with the cached token; the server
\* accepts it or not.
AuthConvCached(c) ==
    /\ pc[c] = "conv_cached"
    /\ ConductSaslConversation(c, CachedStepToken(c))
    /\ \E accepted \in BOOLEAN :
          IF accepted
          THEN /\ Return(c, "ok")
               /\ hist' = [hist EXCEPT ![c] = Returned([@ EXCEPT !.nConv = @ + 1])]
          ELSE /\ pc' = [pc EXCEPT ![c] = "invalidate"]
               /\ hist' = [hist EXCEPT ![c].nConv = @ + 1,
                                       ![c].rejTok = CachedStepToken(c)]
               /\ UNCHANGED <<frame, result>>
    /\ UNCHANGED <<oaVars, connGen, cbOk, recvGen, calls>>

\* Auth, lines 330-352: invalidate, sleep invalidateSleepTimeout, and go on.
AuthInvalidate(c) ==
    /\ pc[c] = "invalidate"
    /\ InvalidateAccessToken(c)
    /\ AuthDispatch(c, [hist[c] EXCEPT !.invOut = InvalidateOutcome(c)])
    /\ UNCHANGED <<cbOk, usedTok, calls>>

\* A mutex released before the callback is invoked.
MuReleasedEarly(c) == Unlocked

\* What mu holds while the callback runs and its result is stored: the
\* deferred Unlock of line 238 runs only when getAccessToken returns.
MuDuringAcquisition(c) == c

\* A test that never finds a token cached.
NeverCached(t) == FALSE

\* getAccessToken's test of the cache, line 240.
HasCachedToken(t) == t # Empty

\* getAccessToken, lines 237-242: Lock, and the cached token if there is one.
GetAccessTokenLock(c) ==
    /\ pc[c] = "getAccessToken"
    /\ mu = Unlocked
    /\ IF HasCachedToken(accessToken)
       THEN /\ frame' = [frame EXCEPT ![c].accessToken = accessToken]
            /\ pc' = [pc EXCEPT ![c] = "conv_fresh"]
            /\ recvGen' = [recvGen EXCEPT ![c] = tokenGenID]
            /\ UNCHANGED <<mu, hist>>
       ELSE /\ mu' = MuDuringAcquisition(c)
            /\ pc' = [pc EXCEPT ![c] = "callback"]
            /\ hist' = [hist EXCEPT ![c].snap =
                            <<accessToken, refreshToken, tokenGenID, connGen>>]
            /\ UNCHANGED <<frame, recvGen>>
    /\ UNCHANGED <<cred, built, accessToken, refreshToken, tokenGenID, connGen>>
    /\ UNCHANGED <<result, cbOk, usedTok, calls>>

\* A mutex that is still held when getAccessToken has returned.
MuHeldAtReturn(c) == c

\* What mu holds once getAccessToken has returned: the deferred Unlock of
\* line 238 has run.
MuAtReturn(c) == Unlocked

\* The errors a callback may return.
CallbackErrors == {"errCallback", "errDeadlineExceeded"}

\* The callback's error wrapped in another.
CallbackErrorWrapped(e) == "errWrapped"

\* What getAccessToken (line 246), doAuthMachine (line 373) and Auth (line
\* 350) return for the callback's error e.
CallbackError(e) == e

\* getAccessToken, lines 244-247: the callback returns a credential or an
\* error, and the error is returned with the mutex released.
Callback(c) ==
    /\ pc[c] = "callback"
    /\ \/ /\ cbOk < MaxGen
          /\ \E withRefresh \in BOOLEAN :
                frame' = [frame EXCEPT ![c].credToken = cbOk + 1,
                                       ![c].credRefresh = withRefresh]
          /\ cbOk' = cbOk + 1
          /\ pc' = [pc EXCEPT ![c] = "store_token"]
          /\ hist' = [hist EXCEPT ![c].nCb = @ + 1]
          /\ UNCHANGED <<mu, result>>
       \/ /\ \E e \in CallbackErrors :
                /\ Return(c, CallbackError(e))
                /\ hist' = [hist EXCEPT ![c] =
                              Returned([@ EXCEPT !.nCb = @ + 1, !.cbErr = e])]
          /\ mu' = MuAtReturn(c)
          /\ UNCHANGED cbOk
    /\ UNCHANGED <<cred, built, accessToken, refreshToken, tokenGenID, connGen>>
    /\ UNCHANGED <<usedTok, recvGen, calls>>

\* getAccessToken, line 249.
StoreToken(c) ==
    /\ pc[c] = "store_token"
    /\ accessToken' = frame[c].credToken
    /\ pc' = [pc EXCEPT ![c] = "incr_gen"]
    /\ UNCHANGED <<cred, built, mu, refreshToken, tokenGenID, connGen>>
    /\ UNCHANGED <<frame, result, histVars>>

\* A counter that is not incremented.
NextGenSame(g) == g

\* A counter one bit wide: the increment wraps to 0.
NextGenWrapped(g) == (g + 1) % 2

\* The new value of tokenGenID, line 250.
NextGen(g) == g + 1

IncrGen(c) ==
    /\ pc[c] = "incr_gen"
    /\ tokenGenID' = NextGen(tokenGenID)
    /\ pc' = [pc EXCEPT ![c] = "set_conn_gen"]
    /\ UNCHANGED <<cred, built, mu, accessToken, refreshToken, connGen>>
    /\ UNCHANGED <<frame, result, histVars>>

\* getAccessToken, lines 251-255, and the deferred Unlock.
SetConnGen(c) ==
    /\ pc[c] = "set_conn_gen"
    /\ connGen' = [connGen EXCEPT ![c] = tokenGenID]
    /\ refreshToken' = IF frame[c].credRefresh THEN frame[c].credToken ELSE refreshToken
    /\ frame' = [frame EXCEPT ![c] = [NoFrame EXCEPT !.accessToken = frame[c].credToken]]
    /\ mu' = MuAtReturn(c)
    /\ pc' = [pc EXCEPT ![c] = "conv_fresh"]
    /\ recvGen' = [recvGen EXCEPT ![c] = tokenGenID]
    /\ hist' = [hist EXCEPT ![c].snap = NoSnap]
    /\ UNCHANGED <<cred, built, accessToken, tokenGenID>>
    /\ UNCHANGED <<result, cbOk, usedTok, calls>>

\* A call that, when the second conversation fails, invalidates and tries
\* once more.
AfterMachineConvRetry(accepted) == IF accepted THEN "idle" ELSE "invalidate"

\* Where the call is after doAuthMachine's conversation: doAuthMachine
\* returns what ConductSaslConversation returned (line 375), and Auth returns
\* that (line 350).
AfterMachineConv(accepted) == "idle"

\* doAuthMachine, lines 375-380: the conversation with the token
\* getAccessToken returned; the server accepts it or not.
MachineConv(c) ==
    /\ pc[c] = "conv_fresh"
    /\ ConductSaslConversation(c, frame[c].accessToken)
    /\ \E accepted \in BOOLEAN :
          /\ pc' = [pc EXCEPT ![c] = AfterMachineConv(accepted)]
          /\ result' = [result EXCEPT ![c] = IF accepted THEN "ok" ELSE "errConversation"]
    /\ frame' = [frame EXCEPT ![c] = NoFrame]
    /\ hist' = [hist EXCEPT ![c] = Returned([@ EXCEPT !.nConv = @ + 1])]
    /\ UNCHANGED <<oaVars, connGen, cbOk, recvGen, calls>>

\* A conversation returned whatever the cache holds.
SpeculativeAlways(t) == "conversation"

\* What CreateSpeculativeConversation returns on the cached token t, lines
\* 388-392: nil, nil to skip, or a conversation.
SpeculativeResult(t) == IF t = Empty THEN "skip" ELSE "conversation"

\* CreateSpeculativeConversation, lines 384-393, with the mutex taken and
\* released: the conversation it returns carries the cached token.
CreateSpeculativeConversation(c) ==
    /\ mu = Unlocked
    /\ BeginCall(c)
    /\ frame' = [frame EXCEPT ![c] = [NoFrame EXCEPT !.accessToken = accessToken]]
    /\ result' = [result EXCEPT ![c] = SpeculativeResult(accessToken)]
    /\ hist' = [hist EXCEPT ![c] = NoHist]
    /\ UNCHANGED <<oaVars, connGen, pc, cbOk, usedTok, recvGen>>

Next ==
    \E c \in Conns :
        \/ Auth(c)
        \/ Reauth(c)
        \/ ReauthAuth(c)
        \/ AuthConvCached(c)
        \/ AuthInvalidate(c)
        \/ GetAccessTokenLock(c)
        \/ Callback(c)
        \/ StoreToken(c)
        \/ IncrGen(c)
        \/ SetConnGen(c)
        \/ MachineConv(c)
        \/ CreateSpeculativeConversation(c)

Spec == Init /\ [][Next]_vars
-----------------------------------------------------------------------------
\* Steps and positions the properties speak of.

\* c runs invalidateAccessToken in this step (from Reauth or from Auth).
InvalidateStep(c) ==
    \/ pc[c] = "idle" /\ pc'[c] = "auth"
    \/ pc[c] = "invalidate" /\ pc'[c] # "invalidate"

\* c is between lines 249 and 255 of getAccessToken.
Updating(c) == pc[c] \in {"store_token", "incr_gen", "set_conn_gen"}

-----------------------------------------------------------------------------
\* C1: invalidateAccessToken on a connection whose slot holds g, with the
\* counter at G, empties the cached token and sets the slot to 0 if and only
\* if g = 0 or g >= G; otherwise the cached token, the counter and the slot
\* are unchanged.  The counter is unchanged in both cases.
C1_Fencing ==
    [][\A c \in Conns :
          InvalidateStep(c) =>
             /\ tokenGenID' = tokenGenID
             /\ IF connGen[c] = 0 \/ connGen[c] >= tokenGenID
                THEN accessToken' = Empty /\ connGen'[c] = 0
                ELSE accessToken' = accessToken /\ connGen'[c] = connGen[c]]_vars

\* A fenced invalidation has happened and the token is still cached.
C1_Witness ==
    \E c \in Conns :
        /\ hist[c].invOut = "fenced"
        /\ accessToken # Empty
        /\ 0 < connGen[c] /\ connGen[c] < tokenGenID

\* C2: an invalidation on behalf of a connection whose last used token is
\* older than the cached token never empties the cache.
C2_StaleInvalidationKeepsToken ==
    [][\A c \in Conns :
          (/\ InvalidateStep(c)
           /\ usedTok[c] # Empty
           /\ accessToken # Empty
           /\ usedTok[c] < accessToken)
          => accessToken' = accessToken]_vars

\* C4: the counter starts at 0, changes only by the increment of a successful
\* acquisition, and, whenever the mutex is free, equals the number of
\* successful callback invocations; while an acquisition holds the mutex it
\* lags by at most the one being stored.
C4_CounterStep ==
    \/ tokenGenID' = tokenGenID
    \/ /\ tokenGenID' = tokenGenID + 1
       /\ \E c \in Conns : pc[c] = "incr_gen" /\ mu = c /\ hist[c].nCb = 1

C4_CounterInv ==
    /\ mu = Unlocked => tokenGenID = cbOk
    /\ tokenGenID \in {cbOk, cbOk - 1}

C4_Counter ==
    /\ tokenGenID = 0
    /\ []C4_CounterInv
    /\ [][C4_CounterStep]_vars

\* The counter has counted two acquisitions, with an invalidation between.
C4_Witness ==
    /\ tokenGenID = 2
    /\ cbOk = 2
    /\ mu = Unlocked
    /\ \E c \in Conns : hist[c].invOut = "cleared"
-----------------------------------------------------------------------------
\* The runs in which nothing fails: every Auth is given a config, the callback
\* returns a credential, the server accepts every token; no Reauth.
NoFailure ==
    \A c \in Conns : result[c] \in {"none", "ok"} /\ pc[c] # "invalidate"

HerdNext ==
    \E c \in Conns :
        \/ Auth(c) /\ NoFailure'
        \/ AuthConvCached(c) /\ NoFailure'
        \/ GetAccessTokenLock(c) /\ NoFailure'
        \/ Callback(c) /\ NoFailure'
        \/ StoreToken(c) /\ NoFailure'
        \/ IncrGen(c) /\ NoFailure'
        \/ SetConnGen(c) /\ NoFailure'
        \/ MachineConv(c) /\ NoFailure'

SpecHerd == Init /\ [][HerdNext]_vars

\* C3: when connections call Auth concurrently on an empty cache, the
\* callback succeeds and the server accepts the token, the callback is invoked
\* once in all, every call that has returned ran one successful conversation
\* with that one token, and a call in progress can always go on.
C3_OneCallback ==
    /\ cbOk <= 1
    /\ \A c \in Conns : hist[c].nCb = 1 => \A d \in Conns \ {c} : hist[d].nCb = 0
    /\ \A c \in Conns :
          result[c] = "ok" =>
             /\ cbOk = 1
             /\ usedTok[c] = 1
             /\ hist[c].nConv = 1
    /\ (\E c \in Conns : pc[c] # "idle") => ENABLED HerdNext

\* Every connection has called Auth once and succeeded, on one callback.
C3_Witness ==
    /\ calls = NumConns
    /\ cbOk = 1
    /\ \A c \in Conns : pc[c] = "idle" /\ result[c] = "ok" /\ usedTok[c] = 1
-----------------------------------------------------------------------------
\* C5: getAccessToken stores the token, increments the counter and sets the
\* caller's slot in one update under the mutex: a call between lines 249 and
\* 255 holds the mutex; when the mutex is released the cached token is the one
\* the callback returned, the counter is one more than when the mutex was
\* taken and the slot holds the new counter; and whenever the mutex is free
\* the cached token's generation is already counted.
C5_UpdateInv ==
    /\ \A c \in Conns : Updating(c) \/ pc[c] = "callback" => mu = c
    /\ mu = Unlocked /\ accessToken # Empty => accessToken <= tokenGenID

C5_UpdateStep ==
    \A c \in Conns :
        pc[c] = "set_conn_gen" /\ pc'[c] # "set_conn_gen" =>
            /\ mu' = Unlocked
            /\ accessToken' = frame[c].credToken
            /\ frame'[c].accessToken = frame[c].credToken
            /\ tokenGenID' = hist[c].snap[3] + 1
            /\ connGen'[c] = tokenGenID'
            /\ \A d \in Conns \ {c} : connGen'[d] = hist[c].snap[4][d]

C5_AtomicUpdate == []C5_UpdateInv /\ [][C5_UpdateStep]_vars

\* An acquisition has just been completed while another connection is in a
\* call.
C5_Witness ==
    \E c \in Conns :
        /\ pc[c] = "conv_fresh"
        /\ hist[c].nCb = 1
        /\ accessToken = frame[c].accessToken
        /\ accessToken = tokenGenID
        /\ connGen[c] = tokenGenID
        /\ \E d \in Conns \ {c} : pc[d] # "idle"

\* C6: when the callback returns an error, getAccessToken and Auth return
\* that error, no conversation follows, and the cached token, the refresh
\* token, the counter and every slot are as they were when getAccessToken
\* took the mutex.
C6_FailureStep ==
    \A c \in Conns :
        pc[c] = "callback" /\ pc'[c] # "store_token" /\ pc'[c] # "callback" =>
            /\ pc'[c] = "idle"
            /\ hist'[c].cbErr \in CallbackErrors
            /\ result'[c] = hist'[c].cbErr
            /\ hist'[c].nConv = hist[c].nConv
            /\ usedTok'[c] = usedTok[c]
            /\ <<accessToken', refreshToken', tokenGenID', connGen'>> = hist[c].snap
            /\ UNCHANGED <<accessToken, refreshToken, tokenGenID, connGen>>
            /\ mu' = Unlocked

C6_FailureInv ==
    \A c \in Conns :
        /\ hist[c].cbErr # "nil" => pc[c] = "idle" /\ result[c] = hist[c].cbErr
        /\ result[c] \in CallbackErrors => hist[c].cbErr = result[c]

C6_CallbackFailure == []C6_FailureInv /\ [][C6_FailureStep]_vars

\* A callback has failed after an earlier acquisition that left a refresh
\* token, and the call has returned its error.
C6_Witness ==
    \E c \in Conns :
        /\ result[c] \in CallbackErrors
        /\ hist[c].nCb = 1
        /\ tokenGenID = 1
        /\ refreshToken # Empty
        /\ accessToken = Empty

\* C7: an Auth whose cached-token conversation the server accepts has run
\* that one conversation, with the token it read from the cache, and no
\* callback; neither reading the cache nor the conversation changes the
\* cached token, the counter or a slot.
C7_FastPathStep ==
    \A c \in Conns :
        /\ pc'[c] = "conv_cached" /\ pc[c] # "conv_cached" =>
              /\ frame'[c].cachedAccessToken = accessToken
              /\ accessToken # Empty
              /\ hist'[c].nConv = 0 /\ hist'[c].nCb = 0
              /\ UNCHANGED <<accessToken, tokenGenID, connGen, mu>>
        /\ pc[c] = "conv_cached" /\ pc'[c] # "conv_cached" =>
              /\ usedTok'[c] = frame[c].cachedAccessToken
              /\ hist'[c].nConv = 1 /\ hist'[c].nCb = 0
              /\ UNCHANGED <<accessToken, tokenGenID, connGen, mu>>
              /\ pc'[c] = "idle" => result'[c] = "ok"

C7_FastPath == [][C7_FastPathStep]_vars

\* An Auth has succeeded on the cached token, on a connection that never
\* acquired one, with the token still cached.
C7_Witness ==
    \E c \in Conns :
        /\ pc[c] = "idle" /\ result[c] = "ok"
        /\ hist[c].nConv = 1 /\ hist[c].nCb = 0
        /\ usedTok[c] = accessToken /\ accessToken # Empty
        /\ recvGen[c] = tokenGenID /\ connGen[c] = 0
-----------------------------------------------------------------------------
\* The runs in which the calls follow one another: a connection takes a step
\* only while no other connection is in a call.
Alone(c) == \A d \in Conns \ {c} : pc[d] = "idle"

SeqNext ==
    \E c \in Conns :
        \/ Alone(c) /\ Auth(c)
        \/ Alone(c) /\ Reauth(c)
        \/ Alone(c) /\ ReauthAuth(c)
        \/ Alone(c) /\ AuthConvCached(c)
        \/ Alone(c) /\ AuthInvalidate(c)
        \/ Alone(c) /\ GetAccessTokenLock(c)
        \/ Alone(c) /\ Callback(c)
        \/ Alone(c) /\ StoreToken(c)
        \/ Alone(c) /\ IncrGen(c)
        \/ Alone(c) /\ SetConnGen(c)
        \/ Alone(c) /\ MachineConv(c)
        \/ Alone(c) /\ CreateSpeculativeConversation(c)

SpecSeq == Init /\ [][SeqNext]_vars

\* C8: a Reauth on the connection that holds the cached token's generation k
\* (k = 1 in the claim: token T1, counter 1, slot 1) empties the cache,
\* invokes the callback once and, when that succeeds, has the next token
\* cached, the counter at k + 1 and the slot at k + 1; an invalidation that
\* then comes from a connection whose slot holds an older generation changes
\* neither the cached token nor the counter nor the slot.
C8_CycleInv ==
    \A c \in Conns :
        hist[c].cycle > 0 =>
            /\ hist[c].invOut = "cleared"
            /\ hist[c].nConv = 0
            /\ pc[c] \in {"auth", "getAccessToken", "callback"} =>
                  accessToken = Empty /\ tokenGenID = hist[c].cycle /\ hist[c].nCb = 0
            /\ pc[c] = "conv_fresh" =>
                  /\ hist[c].nCb = 1
                  /\ accessToken = hist[c].cycle + 1
                  /\ frame[c].accessToken = accessToken
                  /\ tokenGenID = hist[c].cycle + 1
                  /\ connGen[c] = hist[c].cycle + 1
            /\ pc[c] \in {"auth", "getAccessToken", "callback", "store_token",
                          "incr_gen", "set_conn_gen", "conv_fresh"}

C8_LateInvalidation ==
    \A d \in Conns :
        InvalidateStep(d) /\ 0 < connGen[d] /\ connGen[d] < tokenGenID =>
            UNCHANGED <<accessToken, tokenGenID, connGen>>

C8_ReauthCycle == []C8_CycleInv /\ [][C8_LateInvalidation]_vars

\* Reauth after T1 (counter 1, slot 1) has acquired T2: counter 2, slot 2.
C8_Witness ==
    \E c \in Conns :
        /\ hist[c].cycle = 1
        /\ pc[c] = "conv_fresh"
        /\ accessToken = 2 /\ tokenGenID = 2 /\ connGen[c] = 2
        /\ usedTok[c] = 1

\* C9: after the server rejected the cached token, the conversation that
\* follows in the call is not run with the rejected token.
C9_NotTheRejectedToken ==
    \A c \in Conns :
        hist[c].rejTok # Empty =>
            /\ pc[c] = "conv_cached" => frame[c].cachedAccessToken # hist[c].rejTok
            /\ pc[c] = "conv_fresh" => frame[c].accessToken # hist[c].rejTok

\* C10: each connection's slot holds the value the counter had when the
\* connection last received a token, freshly acquired or from the cache (0
\* if it never received one or an invalidation reset the slot).
C10_SlotIsLastReceivedGen ==
    \A c \in Conns : ~Updating(c) => connGen[c] = recvGen[c]
-----------------------------------------------------------------------------
\* C11: a call of Auth (Reauth's included) runs at most two conversations and
\* invokes a callback at most once; the second conversation comes only after
\* the first, with the cached token, was rejected and invalidateAccessToken
\* has run; whatever the second conversation's outcome, the call returns it.
C11_AttemptsInv ==
    \A c \in Conns :
        /\ hist[c].nConv <= 2
        /\ hist[c].nCb <= 1
        /\ hist[c].nConv = 2 => pc[c] = "idle" /\ result[c] \in {"ok", "errConversation"}
        /\ hist[c].nConv = 1 /\ pc[c] # "idle" =>
              /\ pc[c] \notin {"auth", "conv_cached"}
              /\ hist[c].rejTok = usedTok[c]
              /\ pc[c] # "invalidate" => hist[c].invOut # "none"
        /\ pc[c] \in {"auth", "conv_cached"} => hist[c].nConv = 0 /\ hist[c].nCb = 0

C11_AttemptsStep ==
    \A c \in Conns :
        /\ pc[c] = "conv_fresh" /\ pc'[c] # "conv_fresh" =>
              /\ pc'[c] = "idle"
              /\ result'[c] \in {"ok", "errConversation"}
              /\ hist'[c].nConv = hist[c].nConv + 1
        /\ pc[c] = "conv_cached" /\ pc'[c] # "conv_cached" =>
              \/ pc'[c] = "idle" /\ result'[c] = "ok"
              \/ pc'[c] = "invalidate"

C11_AtMostTwoAttempts == []C11_AttemptsInv /\ [][C11_AttemptsStep]_vars

\* A call has run two conversations, the second with a token from its one
\* callback invocation, and returned the second's failure.
C11_Witness ==
    \E c \in Conns :
        /\ pc[c] = "idle" /\ result[c] = "errConversation"
        /\ hist[c].nConv = 2 /\ hist[c].nCb = 1
-----------------------------------------------------------------------------
\* The runs in which a callback may also never return.  getAccessToken calls
\* the callback on the caller's goroutine (line 244): the context doAuthMachine
\* derives with machineCallbackTimeout (line 361) is handed to the callback,
\* and nothing else in the call waits on it, so a call whose callback does
\* not return stays at line 244, with the mutex.
CallbackNeverReturns(c) ==
    /\ pc[c] = "callback"
    /\ pc' = [pc EXCEPT ![c] = "callback_blocked"]
    /\ UNCHANGED <<oaVars, connGen, frame, result, histVars>>

TimeoutNext ==
    \/ Next
    \/ \E c \in Conns : CallbackNeverReturns(c)

SpecTimeout == Init /\ [][TimeoutNext]_vars

\* The steps of the call c is in.
CallStep(c) ==
    \/ ReauthAuth(c)
    \/ AuthConvCached(c)
    \/ AuthInvalidate(c)
    \/ GetAccessTokenLock(c)
    \/ Callback(c)
    \/ StoreToken(c)
    \/ IncrGen(c)
    \/ SetConnGen(c)
    \/ MachineConv(c)

\* C12: a call whose machine callback never returns can still end (with the
\* timeout error), and it does not keep the mutex from the other
\* connections' calls: one that waits in getAccessToken can take the mutex.
C12_CallbackTimeout ==
    \A c \in Conns :
        pc[c] = "callback_blocked" =>
            /\ ENABLED CallStep(c)
            /\ \A d \in Conns \ {c} :
                  pc[d] = "getAccessToken" => ENABLED GetAccessTokenLock(d)
-----------------------------------------------------------------------------
\* c is in a conversation with the server.
InConversation(c) == pc[c] \in {"conv_cached", "conv_fresh"}

\* c is in getAccessToken between the callback's invocation and the return.
Acquiring(c) == pc[c] = "callback" \/ Updating(c)

\* C13: the mutex is not held by a call that is in a conversation with the
\* server: it is held only by a call between line 244 and the return of
\* getAccessToken.  So while connections are in conversations and none is
\* acquiring, another connection's invalidation or getAccessToken can go on.
C13_NoLockInConversation ==
    /\ \A c \in Conns : InConversation(c) => mu # c
    /\ mu # Unlocked => Acquiring(mu)
    /\ \A c \in Conns :
          InConversation(c) /\ (\A e \in Conns : ~Acquiring(e)) =>
              \A d \in Conns \ {c} :
                  /\ pc[d] = "invalidate" => ENABLED AuthInvalidate(d)
                  /\ pc[d] = "getAccessToken" => ENABLED GetAccessTokenLock(d)
                  /\ pc[d] = "auth" => ENABLED ReauthAuth(d)

\* Two connections are in their conversations at the same time, one with the
\* cached token and one with a token it has just acquired.
C13_Witness ==
    \E c, d \in Conns :
        /\ pc[c] = "conv_cached"
        /\ pc[d] = "conv_fresh" /\ hist[d].nCb = 1
        /\ mu = Unlocked
-----------------------------------------------------------------------------
\* A call has been made and has returned in the same step:
\* CreateSpeculativeConversation, or an Auth that failed before its first
\* conversation.
ReturnsAtOnce == calls' # calls /\ pc' = pc

\* C14: CreateSpeculativeConversation returns the skip signal exactly when
\* the cached token is empty, and otherwise a conversation carrying the token
\* cached as it holds the mutex; it changes neither the cached token nor the
\* refresh token, the counter or a slot, and invokes no callback.
C14_SpeculativeStep ==
    ReturnsAtOnce =>
        /\ UNCHANGED <<accessToken, refreshToken, tokenGenID, connGen, mu, cbOk>>
        /\ \E c \in Conns :
              /\ \A d \in Conns \ {c} :
                    result'[d] = result[d] /\ frame'[d] = frame[d] /\ hist'[d] = hist[d]
              /\ hist'[c].nCb = 0 /\ hist'[c].nConv = 0
              /\ \/ result'[c] \notin {"skip", "conversation"}
                 \/ /\ result'[c] = "skip"
                    /\ mu = Unlocked
                    /\ accessToken = Empty
                    /\ frame'[c].accessToken = Empty
                 \/ /\ result'[c] = "conversation"
                    /\ mu = Unlocked
                    /\ accessToken # Empty
                    /\ frame'[c].accessToken = accessToken

C14_SpeculativeInv ==
    \A c \in Conns :
        /\ result[c] = "skip" => pc[c] = "idle" /\ frame[c].accessToken = Empty
        /\ result[c] = "conversation" => pc[c] = "idle" /\ frame[c].accessToken # Empty

C14_Speculative == []C14_SpeculativeInv /\ [][C14_SpeculativeStep]_vars

\* One connection was told to skip and another holds a conversation with the
\* token that is cached.
C14_Witness ==
    \E c, d \in Conns :
        /\ result[c] = "skip"
        /\ result[d] = "conversation"
        /\ frame[d].accessToken = accessToken
        /\ tokenGenID = 1 /\ connGen[d] = 1
-----------------------------------------------------------------------------
\* C15: getAccessToken called while a token is cached returns that token,
\* whatever the calling connection's slot holds, without invoking the
\* callback and without changing the cached token, the refresh token or the
\* counter; it returns with the mutex released.
C15_CachedStep ==
    \A c \in Conns :
        pc[c] = "getAccessToken" /\ pc'[c] # "getAccessToken" /\ accessToken # Empty =>
            /\ pc'[c] = "conv_fresh"
            /\ frame'[c].accessToken = accessToken
            /\ hist'[c].nCb = hist[c].nCb
            /\ cbOk' = cbOk
            /\ mu' = Unlocked
            /\ UNCHANGED <<accessToken, refreshToken, tokenGenID>>

C15_CachedInv ==
    \A c \in Conns :
        pc[c] = "conv_fresh" /\ hist[c].nCb = 0 => frame[c].accessToken # Empty

C15_CachedReturn == []C15_CachedInv /\ [][C15_CachedStep]_vars

\* getAccessToken has returned the cached token to a connection that found
\* the cache empty when its Auth began: another connection acquired the token
\* in between.
C15_Witness ==
    \E c \in Conns :
        /\ pc[c] = "conv_fresh"
        /\ hist[c].nCb = 0 /\ hist[c].nConv = 0
        /\ frame[c].accessToken = accessToken /\ accessToken # Empty
        /\ connGen[c] = 0
-----------------------------------------------------------------------------
\* The runs that begin with a credential and the call of newOIDCAuthenticator
\* on it.  The calls on the authenticator it returns follow one another, and
\* a test may have set the cached token (SetAccessToken) before the first.

\* The credentials tried: every combination, with the resource property left
\* out where no environment is named.
CredInputs == {cr \in Creds : cr.resource => cr.env # "absent"}

\* The token a test sets: one that no callback returns.
SeedToken == MaxGen + 1

InitCreds ==
    /\ cred \in CredInputs
    /\ built = "no"
    /\ mu = Unlocked
    /\ accessToken = Empty
    /\ refreshToken = Empty
    /\ tokenGenID = 0
    /\ connGen = [c \in Conns |-> 0]
    /\ pc = [c \in Conns |-> "idle"]
    /\ frame = [c \in Conns |-> NoFrame]
    /\ result = [c \in Conns |-> "none"]
    /\ cbOk = 0
    /\ usedTok = [c \in Conns |-> Empty]
    /\ recvGen = [c \in Conns |-> 0]
    /\ hist = [c \in Conns |-> NoHist]
    /\ calls = 0

\* newOIDCAuthenticator, lines 101-130.
NewAuthenticator ==
    /\ built = "no"
    /\ built' = NewOIDCAuthenticator(cred)
    /\ UNCHANGED <<cred, mu, accessToken, refreshToken, tokenGenID>>
    /\ UNCHANGED <<connGen, callVars, histVars>>

\* SetAccessToken, lines 95-99, called before the first call.
SetAccessToken ==
    /\ built = "ok"
    /\ calls = 0
    /\ mu = Unlocked
    /\ accessToken' = SeedToken
    /\ UNCHANGED <<cred, built, mu, refreshToken, tokenGenID>>
    /\ UNCHANGED <<connGen, callVars, histVars>>

CredNext ==
    \/ NewAuthenticator
    \/ SetAccessToken
    \/ SeqNext

SpecCreds == InitCreds /\ [][CredNext]_vars
\* What a call may return before it has reached Auth's line 334.
BeforeDispatch == {"none", "ok", "errConfigNil", "skip", "conversation"}

\* C16: with a human callback configured, an Auth that does not succeed on
\* the cached token fails with the human-flow-not-implemented error, whatever
\* else is configured; no callback is invoked, no token is acquired, and the
\* counter and the slots stay 0.
C16_HumanInv ==
    built = "ok" /\ cred.human =>
        /\ cbOk = 0 /\ tokenGenID = 0 /\ mu = Unlocked
        /\ accessToken \in {Empty, SeedToken}
        /\ \A c \in Conns :
              /\ pc[c] \in {"idle", "auth", "conv_cached", "invalidate"}
              /\ hist[c].nCb = 0
              /\ connGen[c] = 0
              /\ result[c] \in BeforeDispatch \cup {"errHumanNotImplemented"}
              /\ result[c] = "ok" => hist[c].nConv = 1 /\ usedTok[c] = SeedToken

C16_HumanStep ==
    cred.human =>
        \A c \in Conns :
            /\ pc[c] = "invalidate" /\ pc'[c] # "invalidate" =>
                  pc'[c] = "idle" /\ result'[c] = "errHumanNotImplemented"
            /\ pc[c] = "auth" /\ pc'[c] # "auth" /\ accessToken = Empty =>
                  pc'[c] = "idle" /\ result'[c] = "errHumanNotImplemented"
            /\ ReturnsAtOnce /\ accessToken = Empty /\ result'[c] # result[c] =>
                  result'[c] \in {"errHumanNotImplemented", "errConfigNil", "skip"}

C16_HumanNotImplemented == []C16_HumanInv /\ [][C16_HumanStep]_vars

\* With a human callback, a machine callback and an environment all set, an
\* Auth whose cached token the server rejected has failed with the human
\* flow's error.
C16_Witness ==
    \E c \in Conns :
        /\ built = "ok"
        /\ cred.human /\ cred.machine /\ cred.env # "absent"
        /\ pc[c] = "idle" /\ result[c] = "errHumanNotImplemented"
        /\ hist[c].nConv = 1 /\ hist[c].invOut = "none" /\ usedTok[c] = SeedToken

\* C17: without a human callback and with the cache empty, Auth takes the
\* user's machine callback if there is one, whatever the environment (the
\* provider is not consulted, so none of its errors is returned); otherwise
\* the callback providerCallback resolves; and with neither a callback nor an
\* environment it fails with the no-callback error without invoking a
\* callback, running a conversation or changing the cached token, the counter
\* or a slot.
C17_SourceInv ==
    built = "ok" /\ ~cred.human =>
        \A c \in Conns :
            /\ pc[c] \in {"getAccessToken", "callback"} \/ Updating(c) =>
                  /\ cred.machine => frame[c].machineCallback = "user"
                  /\ ~cred.machine =>
                        /\ cred.env # "absent"
                        /\ frame[c].machineCallback = "azure"
            /\ cred.machine => result[c] \notin {"errProvider", "errNoCallback"}
            /\ ~cred.machine /\ cred.env = "absent" =>
                  /\ cbOk = 0 /\ tokenGenID = 0 /\ connGen[c] = 0
                  /\ hist[c].nCb = 0
                  /\ result[c] \in BeforeDispatch \cup {"errNoCallback"}
                  /\ accessToken \in {Empty, SeedToken}

C17_SourceStep ==
    ~cred.human =>
        \A c \in Conns :
            /\ pc[c] = "auth" /\ pc'[c] # "auth" /\ accessToken = Empty =>
                  /\ cred.machine =>
                        pc'[c] = "getAccessToken" /\ frame'[c].machineCallback = "user"
                  /\ ~cred.machine /\ cred.env = "absent" =>
                        /\ pc'[c] = "idle" /\ result'[c] = "errNoCallback"
                        /\ hist'[c].nConv = 0 /\ hist'[c].nCb = 0
                        /\ UNCHANGED <<accessToken, tokenGenID, connGen, usedTok>>
            /\ ReturnsAtOnce /\ accessToken = Empty /\ result'[c] # result[c] =>
                  /\ cred.machine => result'[c] \in {"errConfigNil", "skip"}
                  /\ ~cred.machine /\ cred.env = "absent" =>
                        /\ result'[c] \in {"errNoCallback", "errConfigNil", "skip"}
                        /\ UNCHANGED <<accessToken, tokenGenID, connGen, usedTok>>

C17_TokenSource == []C17_SourceInv /\ [][C17_SourceStep]_vars

\* The user's machine callback is being invoked although the credential
\* names an environment for which providerCallback returns an error.
C17_Witness ==
    \E c \in Conns :
        /\ built = "ok"
        /\ cred.machine /\ ~cred.human /\ ProviderCallback(cred)[2] # "nil"
        /\ pc[c] = "callback"
        /\ frame[c].machineCallback = "user"
        /\ hist[c].nConv = 0

\* C19: newOIDCAuthenticator returns an error, and no authenticator, for a
\* credential with a password and for one that names the azure environment
\* without the resource property; until an authenticator is returned nothing
\* is called; a credential with no password, no missing resource and no
\* callback beside an environment yields an authenticator with an empty
\* cache and the counter at 0.
C19_ConstructInv ==
    /\ cred.password => built \in {"no", "errPassword"}
    /\ ~cred.password /\ cred.env = "azure" /\ ~cred.resource =>
          built \in {"no", "errResource"}
    /\ (/\ ~cred.password
        /\ cred.env \in {"azure", "Azure", "gcp"} => cred.resource
        /\ cred.env # "absent" => ~cred.machine /\ ~cred.human)
       => built \in {"no", "ok"}
    /\ built # "ok" =>
          /\ calls = 0 /\ cbOk = 0
          /\ accessToken = Empty /\ tokenGenID = 0
          /\ \A c \in Conns : pc[c] = "idle" /\ result[c] = "none" /\ usedTok[c] = Empty

C19_ConstructStep ==
    built = "no" /\ built' # "no" =>
        /\ built' = "ok" =>
              /\ accessToken' = Empty /\ refreshToken' = Empty /\ tokenGenID' = 0
              /\ mu' = Unlocked
        /\ UNCHANGED <<cbOk, usedTok, calls>>

C19_Construction == []C19_ConstructInv /\ [][C19_ConstructStep]_vars

\* newOIDCAuthenticator has refused a credential that names azure without a
\* resource.
C19_Witness ==
    /\ built = "errResource"
    /\ cred.env = "azure" /\ ~cred.resource /\ ~cred.password

\* C20: no authenticator exists whose credential has both an environment, of
\* whatever value, and a user-supplied callback.
C20_NoTagWithCallback ==
    built = "ok" => ~(cred.env # "absent" /\ (cred.machine \/ cred.human))
-----------------------------------------------------------------------------
\* The errors a call on the machine path returns: a nil config, the
\* callback's error, the server's rejection of the second conversation.
CallErrors == {"errConfigNil", "errConversation"} \cup CallbackErrors

-----------------------------------------------------------------------------
\* The credential has no user callback and names an environment other than
\* azure.
OtherEnvironment == ~cred.machine /\ ~cred.human /\ cred.env \notin {"absent", "azure"}

\* C21: for an authenticator with no user callback whose environment is not
\* azure, providerCallback returns an error (never a nil error, with or
\* without a callback); Auth with an empty cache returns that error wrapped,
\* having invoked no callback and run no conversation, with the cached
\* token, the counter and the slots unchanged.
C21_UnsupportedInv ==
    built = "ok" /\ OtherEnvironment =>
        /\ ProviderCallback(cred)[2] \in {"errNotImplemented", "errNotSupported"}
        /\ cbOk = 0 /\ tokenGenID = 0 /\ mu = Unlocked
        /\ accessToken \in {Empty, SeedToken}
        /\ \A c \in Conns :
              /\ pc[c] \in {"idle", "auth", "conv_cached", "invalidate"}
              /\ hist[c].nCb = 0
              /\ connGen[c] = 0
              /\ result[c] \in BeforeDispatch \cup {"errProvider"}

C21_UnsupportedStep ==
    OtherEnvironment =>
        \A c \in Conns :
            /\ pc[c] = "auth" /\ pc'[c] # "auth" /\ accessToken = Empty =>
                  /\ pc'[c] = "idle" /\ result'[c] = "errProvider"
                  /\ hist'[c].nConv = 0
                  /\ UNCHANGED <<accessToken, tokenGenID, connGen, usedTok>>
            /\ ReturnsAtOnce /\ accessToken = Empty /\ result'[c] # result[c] =>
                  /\ result'[c] \in {"errProvider", "errConfigNil", "skip"}
                  /\ hist'[c].nConv = 0
                  /\ UNCHANGED <<accessToken, tokenGenID, connGen, usedTok>>

C21_UnsupportedEnvironment == []C21_UnsupportedInv /\ [][C21_UnsupportedStep]_vars

\* Auth on an authenticator for the gcp environment, whose resolver returns
\* a callback together with its error, has failed with the provider's error
\* before any conversation.
C21_Witness ==
    \E c \in Conns :
        /\ built = "ok" /\ OtherEnvironment /\ cred.env = "gcp"
        /\ ProviderCallback(cred)[1] # "nil"
        /\ pc[c] = "idle" /\ result[c] = "errProvider"
        /\ hist[c].nConv = 0 /\ usedTok[c] = Empty
-----------------------------------------------------------------------------
\* The PLAIN authenticator (plain.go) and the two one-step SaslClients, with
\* the conversation followed step by step.

\* The NUL byte and the strings tried as user name and password.
NUL == "NUL"
Strings == {<<>>, <<"u">>, <<"p", "w">>}

\* Cred as newPlainAuthenticator reads it.
PlainCreds == [username : Strings, password : Strings]

\* &plainSaslClient{username, password} and &oidcOneStep{accessToken}
PlainSaslClient(u, p) == [kind |-> "plain", username |-> u, password |-> p]
OidcOneStep(t) == [kind |-> "oidc", accessToken |-> t]

\* jwtStepRequest, lines 137-141 of oidc.go: the document {jwt: accessToken}
JwtStepRequest(t) == [jwt |-> t]

\* Start: <<mechanism, payload, err>>
ClientStart(cl) ==
    IF cl.kind = "plain"
    THEN <<"PLAIN", <<NUL>> \o cl.username \o <<NUL>> \o cl.password, "nil">>
    ELSE <<"MONGODB-OIDC", JwtStepRequest(cl.accessToken), "nil">>

\* A Next that answers the challenge with a payload.
ClientNextAnswers(cl) == <<ClientStart(cl)[2], "nil">>

\* Next: <<payload, err>>
ClientNext(cl) ==
    IF cl.kind = "plain"
    THEN <<"nil", "errUnexpectedServerChallenge">>
    ELSE <<"nil", "errUnexpectedStep">>

\* Completed
ClientCompleted(cl) == TRUE

InitSasl ==
    /\ cred \in PlainCreds
    /\ built = "no"
    /\ mu = Unlocked
    /\ accessToken = Empty
    /\ refreshToken = Empty
    /\ tokenGenID = 0
    /\ connGen = [c \in Conns |-> 0]
    /\ pc = [c \in Conns |-> "idle"]
    /\ frame = [c \in Conns |-> NoFrame]
    /\ result = [c \in Conns |-> "none"]
    /\ cbOk = 0
    /\ usedTok = [c \in Conns |-> Empty]
    /\ recvGen = [c \in Conns |-> 0]
    /\ hist = [c \in Conns |-> NoHist]
    /\ calls = 0

\* newPlainAuthenticator, plain.go lines 19-24: never an error.
NewPlainAuthenticator ==
    /\ built = "no"
    /\ built' = "plain"
    /\ UNCHANGED <<cred, mu, accessToken, refreshToken, tokenGenID>>
    /\ UNCHANGED <<connGen, callVars, histVars>>

\* A call by c on a SaslClient or on the PLAIN authenticator begins.
BeginSaslCall(c) ==
    /\ pc[c] = "idle"
    /\ calls < MaxCalls
    /\ calls' = calls + 1
    /\ UNCHANGED <<oaVars, connGen, cbOk, usedTok, recvGen>>

\* PlainAuthenticator.Auth, plain.go lines 33-38: the conversation is begun
\* with a plainSaslClient.
PlainAuth(c) ==
    /\ built = "plain"
    /\ BeginSaslCall(c)
    /\ frame' = [frame EXCEPT ![c] =
                    [NoFrame EXCEPT !.client = PlainSaslClient(cred.username, cred.password)]]
    /\ pc' = [pc EXCEPT ![c] = "sasl_start"]
    /\ result' = [result EXCEPT ![c] = "none"]
    /\ hist' = [hist EXCEPT ![c] = NoHist]

\* A Reauth that runs Auth again.
AfterPlainReauthRetry(c) == "sasl_start"

\* Where the call is after PlainAuthenticator.Reauth: it has returned.
AfterPlainReauth(c) == "idle"

\* PlainAuthenticator.Reauth, plain.go lines 41-43, whatever its arguments.
PlainReauth(c) ==
    /\ built = "plain"
    /\ BeginSaslCall(c)
    /\ pc' = [pc EXCEPT ![c] = AfterPlainReauth(c)]
    /\ result' = [result EXCEPT ![c] = "errReauthNotSupported"]
    /\ frame' = [frame EXCEPT ![c] = NoFrame]
    /\ hist' = [hist EXCEPT ![c] = NoHist]

\* A conversation is begun with an oidcOneStep, as Auth (oidc.go line 320),
\* doAuthMachine (line 375) and CreateSpeculativeConversation (line 392) do.
OneStepConversation(c) ==
    /\ BeginSaslCall(c)
    /\ \E t \in 1..MaxGen :
          frame' = [frame EXCEPT ![c] = [NoFrame EXCEPT !.client = OidcOneStep(t)]]
    /\ pc' = [pc EXCEPT ![c] = "sasl_start"]
    /\ result' = [result EXCEPT ![c] = "none"]
    /\ hist' = [hist EXCEPT ![c] = NoHist]

\* The conversation calls Start and sends saslStart with the payload.
SaslStart(c) ==
    /\ pc[c] = "sasl_start"
    /\ frame' = [frame EXCEPT ![c].sent = Append(@, ClientStart(frame[c].client)[2])]
    /\ pc' = [pc EXCEPT ![c] = "sasl_server"]
    /\ hist' = [hist EXCEPT ![c].nConv = @ + 1]
    /\ UNCHANGED <<oaVars, connGen, result, cbOk, usedTok, recvGen, calls>>

\* The server's response: an error, done, or a further challenge.  Done ends
\* the conversation if the client is Completed; otherwise Next is called, its
\* error ends the conversation, and its payload is sent with saslContinue.
SaslServer(c) ==
    /\ pc[c] = "sasl_server"
    /\ \E reply \in {"error", "done", "challenge"} :
          IF reply = "error"
          THEN /\ pc' = [pc EXCEPT ![c] = "idle"]
               /\ result' = [result EXCEPT ![c] = "errConversation"]
               /\ UNCHANGED frame
          ELSE IF reply = "done" /\ ClientCompleted(frame[c].client)
          THEN /\ pc' = [pc EXCEPT ![c] = "idle"]
               /\ result' = [result EXCEPT ![c] = "ok"]
               /\ UNCHANGED frame
          ELSE IF ClientNext(frame[c].client)[2] # "nil"
          THEN /\ pc' = [pc EXCEPT ![c] = "idle"]
               /\ result' = [result EXCEPT ![c] = ClientNext(frame[c].client)[2]]
               /\ UNCHANGED frame
          ELSE /\ frame' = [frame EXCEPT ![c].sent =
                               Append(@, ClientNext(frame[c].client)[1])]
               /\ UNCHANGED <<pc, result>>
    /\ UNCHANGED <<oaVars, connGen, histVars>>

SaslNext ==
    \/ NewPlainAuthenticator
    \/ \E c \in Conns :
          \/ PlainAuth(c)
          \/ PlainReauth(c)
          \/ OneStepConversation(c)
          \/ SaslStart(c)
          \/ SaslServer(c)

SpecSasl == InitSasl /\ [][SaslNext]_vars

\* C22: Reauth on the PLAIN authenticator returns the
\* reauthentication-not-supported error, every time it is called, and starts
\* no conversation: it returns in the step it is called in, builds no
\* client and sends nothing.
C22_ReauthInv ==
    \A c \in Conns :
        result[c] = "errReauthNotSupported" =>
            /\ pc[c] = "idle"
            /\ frame[c] = NoFrame
            /\ hist[c].nConv = 0

C22_ReauthStep ==
    /\ built = "plain" /\ ReturnsAtOnce =>
          \E c \in Conns :
              /\ result'[c] = "errReauthNotSupported"
              /\ frame'[c] = NoFrame
              /\ hist'[c].nConv = 0
              /\ \A d \in Conns \ {c} :
                    result'[d] = result[d] /\ frame'[d] = frame[d] /\ hist'[d] = hist[d]
    /\ \A c \in Conns :
          result[c] = "errReauthNotSupported" /\ pc[c] = "idle" /\ pc'[c] # "idle" =>
              result'[c] = "none"

C22_PlainReauth == []C22_ReauthInv /\ [][C22_ReauthStep]_vars

\* Three calls have been made, the last on every connection a Reauth that
\* returned the error and sent nothing.
C22_Witness ==
    /\ built = "plain"
    /\ calls = 3
    /\ \A c \in Conns :
          pc[c] = "idle" /\ result[c] = "errReauthNotSupported" /\ frame[c].sent = <<>>

\* C25: each of the two one-step clients gives its whole payload in Start
\* (with no error), is Completed in every state, and returns an
\* authentication error from Next; so a conversation with one of them sends
\* one client payload and no second one: a further challenge ends it with
\* Next's error.  The PLAIN payload is NUL, the user name, NUL, the
\* password; the token payload is the document with the one key jwt, whose
\* value is the access token.
C25_OneStepInv ==
    \A c \in Conns :
        frame[c].client.kind # "none" =>
            /\ ClientCompleted(frame[c].client)
            /\ ClientStart(frame[c].client)[3] = "nil"
            /\ ClientNext(frame[c].client)[2]
                  \in {"errUnexpectedServerChallenge", "errUnexpectedStep"}
            /\ ClientNext(frame[c].client)[1] = "nil"
            /\ Len(frame[c].sent) <= 1
            /\ pc[c] = "sasl_start" => frame[c].sent = <<>>
            /\ pc[c] = "sasl_server" => Len(frame[c].sent) = 1
            /\ Len(frame[c].sent) = 1 =>
                  IF frame[c].client.kind = "plain"
                  THEN /\ frame[c].client.username = cred.username
                       /\ frame[c].client.password = cred.password
                       /\ Len(frame[c].sent[1]) = 2 + Len(cred.username) + Len(cred.password)
                       /\ frame[c].sent[1][1] = NUL
                       /\ SubSeq(frame[c].sent[1], 2, 1 + Len(cred.username)) = cred.username
                       /\ frame[c].sent[1][2 + Len(cred.username)] = NUL
                       /\ SubSeq(frame[c].sent[1], 3 + Len(cred.username),
                                 Len(frame[c].sent[1])) = cred.password
                  ELSE /\ DOMAIN frame[c].sent[1] = {"jwt"}
                       /\ frame[c].sent[1].jwt = frame[c].client.accessToken

C25_OneStepStep ==
    \A c \in Conns :
        pc[c] = "sasl_server" /\ (pc'[c] # pc[c] \/ frame'[c] # frame[c]) =>
            /\ pc'[c] = "idle"
            /\ frame'[c] = frame[c]
            /\ result'[c] \in {"ok", "errConversation",
                               "errUnexpectedServerChallenge", "errUnexpectedStep"}

C25_OneStepClients == []C25_OneStepInv /\ [][C25_OneStepStep]_vars

\* A conversation with each client has been ended by Next's error on a
\* further challenge, with the one payload sent.
C25_Witness ==
    \E c, d \in Conns :
        /\ pc[c] = "idle" /\ result[c] = "errUnexpectedServerChallenge"
        /\ frame[c].sent = << <<NUL, "u", NUL, "p", "w">> >>
        /\ pc[d] = "idle" /\ result[d] = "errUnexpectedStep"
        /\ frame[d].sent = << [jwt |-> 2] >>
-----------------------------------------------------------------------------
\* C23: at most one callback invocation is in progress at a time; while a
\* connection's getAccessToken is inside the callback it holds the mutex,
\* and no other connection can take a step of getAccessToken, of
\* invalidateAccessToken (from Reauth or from Auth) or of
\* CreateSpeculativeConversation.
C23_OneCallbackAtATime ==
    /\ Cardinality({c \in Conns : pc[c] = "callback"}) <= 1
    /\ \A c \in Conns :
          pc[c] = "callback" =>
              /\ mu = c
              /\ \A d \in Conns \ {c} :
                    /\ ~Acquiring(d)
                    /\ ~ENABLED GetAccessTokenLock(d)
                    /\ ~ENABLED AuthInvalidate(d)
                    /\ ~ENABLED Reauth(d)
                    /\ ~ENABLED CreateSpeculativeConversation(d)

\* One connection is inside the callback while another waits to enter
\* getAccessToken, with calls left for a third party.
C23_Witness ==
    \E c, d \in Conns :
        /\ pc[c] = "callback"
        /\ pc[d] = "getAccessToken"
        /\ calls < MaxCalls
-----------------------------------------------------------------------------
\* C24: in every reachable state every connection's slot is at most the
\* authenticator's counter; so an invalidation that clears the token does so
\* because the slot is 0 or equals the counter, never because it is greater.
C24_SlotInv == \A c \in Conns : connGen[c] <= tokenGenID

C24_ClearingStep ==
    \A c \in Conns :
        (InvalidateStep(c) /\ ShouldInvalidate(connGen[c], tokenGenID))
            => (connGen[c] = 0 \/ connGen[c] = tokenGenID)

C24_SlotAtMostCounter == []C24_SlotInv /\ [][C24_ClearingStep]_vars

\* One connection's invalidation cleared the token, another's was fenced
\* and its slot is strictly between 0 and the counter.
C24_Witness ==
    \E c, d \in Conns :
        /\ hist[c].invOut = "cleared"
        /\ hist[d].invOut = "fenced"
        /\ 0 < connGen[d]
        /\ connGen[d] < tokenGenID
-----------------------------------------------------------------------------
\* How far a call has got through Auth, in the order of lines 307-381.
Rank(p) ==
    CASE p = "idle" -> 0
      [] p = "auth" -> 1
      [] p = "conv_cached" -> 2
      [] p = "invalidate" -> 3
      [] p = "getAccessToken" -> 4
      [] p = "callback" -> 5
      [] p = "store_token" -> 6
      [] p = "incr_gen" -> 7
      [] p = "set_conn_gen" -> 8
      [] p = "conv_fresh" -> 9

\* c waits for the mutex at a Lock call (lines 315, 287 and 237).
WaitsForMu(c) == pc[c] \in {"auth", "invalidate", "getAccessToken"}

\* C26: every call terminates, given that callbacks and conversations do.
\* As safety: the mutex is free when no call is in progress; its holder is a
\* call inside getAccessToken, which can always take its next step; a call
\* in progress can take its next step unless it waits at a Lock for the
\* mutex another call holds (so no call waits for a mutex it holds itself);
\* and every step moves its call forward through Auth or returns, so a call
\* takes at most nine steps.
C26_ProgressInv ==
    /\ (\A c \in Conns : pc[c] = "idle") => mu = Unlocked
    /\ mu # Unlocked => Acquiring(mu) /\ ENABLED CallStep(mu)
    /\ \A c \in Conns :
          pc[c] # "idle" =>
              \/ ENABLED CallStep(c)
              \/ mu \in Conns \ {c} /\ WaitsForMu(c)

C26_ProgressStep ==
    /\ mu' \in Conns /\ mu' # mu => mu = Unlocked
    /\ \A c \in Conns :
          /\ pc'[c] # pc[c] => pc'[c] = "idle" \/ Rank(pc'[c]) > Rank(pc[c])
          /\ CallStep(c) => pc'[c] # pc[c]
    /\ pc' = pc => calls' = calls + 1 /\ mu' = mu

C26_Termination == []C26_ProgressInv /\ [][C26_ProgressStep]_vars

\* Every call the bounds allow has been made and has returned, through
\* MaxGen acquisitions, and the mutex is free.
C26_Witness ==
    /\ calls = MaxCalls
    /\ cbOk = MaxGen
    /\ tokenGenID = MaxGen
    /\ \A c \in Conns : pc[c] = "idle"
    /\ mu = Unlocked
-----------------------------------------------------------------------------
\* C27: when the conversation doAuthMachine runs after getAccessToken fails,
\* Auth returns that error and invalidates nothing: the cached token, the
\* refresh token, the counter and every slot are as the acquisition left
\* them, so the rejected token is what the cache hands to the next caller.
C27_FailedConvStep ==
    \A c \in Conns :
        (pc[c] = "conv_fresh" /\ pc'[c] # "conv_fresh") =>
            /\ pc'[c] = "idle"
            /\ result'[c] \in {"ok", "errConversation"}
            /\ usedTok'[c] = frame[c].accessToken
            /\ UNCHANGED <<accessToken, refreshToken, tokenGenID, connGen, mu>>

C27_FailedConvInv ==
    \A c \in Conns :
        (/\ pc[c] = "idle"
         /\ result[c] = "errConversation"
         /\ hist[c].nCb = 1
         /\ accessToken = usedTok[c]) =>
            \A d \in Conns :
                mu = Unlocked /\ calls < MaxCalls /\ pc[d] = "idle" =>
                    /\ ENABLED (/\ Auth(d)
                                /\ pc'[d] = "conv_cached"
                                /\ CachedStepToken(d)' = usedTok[c])
                    /\ ENABLED (/\ CreateSpeculativeConversation(d)
                                /\ result'[d] = "conversation"
                                /\ frame'[d].accessToken = usedTok[c])

C27_FailedConversationKeepsToken ==
    []C27_FailedConvInv /\ [][C27_FailedConvStep]_vars

\* A call acquired a token and the server rejected it; the token is still
\* cached with the counter in the caller's slot, and another connection's
\* Auth has read it from the cache.
C27_Witness ==
    \E c, d \in Conns :
        /\ result[c] = "errConversation"
        /\ pc[c] = "idle"
        /\ hist[c].nCb = 1
        /\ accessToken = usedTok[c]
        /\ connGen[c] = tokenGenID
        /\ pc[d] = "conv_cached"
        /\ frame[d].cachedAccessToken = usedTok[c]
-----------------------------------------------------------------------------
\* C28: construction and provider resolution agree on the platform tag: an
\* authenticator built from a credential whose tag newOIDCAuthenticator
\* validated as azure (compared without regard to letter case) never has
\* Auth return the provider's error; its tag resolves to the azure callback.
C28_AzureTagAgreement ==
    (/\ built = "ok"
     /\ ToLower(cred.env) = "azure"
     /\ ~cred.machine
     /\ ~cred.human) =>
        \A c \in Conns :
            result[c] # "none" =>
                /\ ProviderCallback(cred) = <<"azure", "nil">>
                /\ result[c] # "errProvider"
====
